---- MODULE Spec2Model ----
(***************************************************************************)
(* Model of daaku/cssm (src/cssm.go): genHash, Process and the Collector.  *)
(*                                                                         *)
(* Bytes are their ASCII codes, a byte string is a sequence of codes.      *)
(* The CSS lexer (github.com/tdewolff/parse/v2/css) is outside the         *)
(* repository: Process sees it as a sequence of (type, data) tokens that   *)
(* ends in a sticky ErrorToken, whose Err() is io.EOF or another error.    *)
(* A Go nil slice and a nil map are modelled as the empty sequence and     *)
(* the empty function.  Writes to a bytes.Buffer do not fail, so the       *)
(* `err != nil` branches after tmp.WriteTo(&out) are not taken.            *)
(***************************************************************************)
EXTENDS Integers, Sequences, FiniteSets, TLC

VARIABLES
    input,    \* the stylesheet given to Process: [toks, end]
    endian,   \* byte order of the platform the program runs on
    proc,     \* the locals of the running Process call
    rules,    \* Collector.rules: ruleset text -> mapping
    styles,   \* Collector.styles: the accumulated buffer
    call,     \* the last Collector method called, with its arguments
    ret,      \* what that call returned (or the panic it raised)
    w,        \* the bytes the last Render wrote to its io.Writer
    hist      \* the Collector calls made so far, each with its ruleset text

vars == <<input, endian, proc, rules, styles, call, ret, w, hist>>

(***************************************************************************)
(* Bounds of the model.                                                    *)
(***************************************************************************)
\* longest free part of a token stream given to Process
MaxLen == 4
\* number of method calls made on one Collector
MaxCalls == 4
\* longest list of class names given to Collector.C
MaxNames == 2

(***************************************************************************)
(* Tokens: the lexer's token types and the bytes of each token.            *)
(***************************************************************************)
Tok(type, data) == [type |-> type, data |-> data]

\* Delim "."
TDot == Tok("Delim", <<46>>)
\* Delim ">"
TGt == Tok("Delim", <<62>>)
\* Colon ":"
TColon == Tok("Colon", <<58>>)
\* AtKeyword "@x"
TAt == Tok("AtKeyword", <<64, 120>>)
\* Ident "global"
TGlobal == Tok("Ident", <<103, 108, 111, 98, 97, 108>>)
\* Ident "media"
TMedia == Tok("Ident", <<109, 101, 100, 105, 97>>)
\* Ident "a"
TA == Tok("Ident", <<97>>)
\* Ident "root"
TRoot == Tok("Ident", <<114, 111, 111, 116>>)
\* LeftBrace "{"
TLB == Tok("LeftBrace", <<123>>)
\* RightBrace "}"
TRB == Tok("RightBrace", <<125>>)
\* what zz.Next() returns once the lexer cannot go on
ErrorToken == Tok("Error", <<>>)

Alphabet == {TDot, TGt, TColon, TAt, TGlobal, TMedia, TA, TLB, TRB}

\* the byte orders binary.NativeEndian can stand for
Platforms == {"LittleEndian", "BigEndian"}

\* zz.Err() after an ErrorToken: io.EOF, or an error of the lexer's reader
Ends == {"EOF", "lexerr"}

RECURSIVE Concat(_)
\* the bytes of a sequence of tokens, in order
Concat(toks) ==
    IF toks = <<>> THEN <<>>
    ELSE Head(toks).data \o Concat(Tail(toks))

\* the bytes the lexer could not read, when it ends in an error
Unread == <<255>>

\* the string given to Process: every byte of it belongs to one token
Text(in) ==
    Concat(in.toks) \o (IF in.end = "EOF" THEN <<>> ELSE Unread)

RECURSIVE SeqsUpTo(_, _)
SeqsUpTo(S, n) ==
    IF n = 0 THEN {<<>>}
    ELSE LET shorter == SeqsUpTo(S, n - 1)
         IN  shorter \cup {Append(s, x) : s \in shorter, x \in S}

\* the tokens the bodies of the framed blocks are made of
BodyAlphabet == {TDot, TA, TLB, TRB, TColon, TGlobal}

\* the token streams Process is run on: all short streams, and a :global
\* block and an @media block around every short body
Streams ==
    LET free == SeqsUpTo(Alphabet, MaxLen)
        body == SeqsUpTo(BodyAlphabet, MaxLen)
    IN  free
        \cup {<<TColon, TGlobal, TLB>> \o b \o <<TRB>> : b \in body}
        \cup {<<TAt, TMedia, TLB>> \o b \o <<TRB>> : b \in body}

(***************************************************************************)
(* genHash: adler32, the platform's byte order, unpadded URL-safe base64.  *)
(***************************************************************************)
RECURSIVE Adler(_, _, _)
\* hash.Write(in): the two 16-bit halves <<b, a>> of the running checksum
Adler(in, a, b) ==
    IF in = <<>> THEN <<b, a>>
    ELSE LET a2 == (a + Head(in)) % 65521
         IN  Adler(Tail(in), a2, (b + a2) % 65521)

\* hash.Sum32() is b * 2^16 + a; kept as its halves <<b, a>>
Sum32(in) == Adler(in, 1, 0)

\* binary.BigEndian.PutUint32 / binary.LittleEndian.PutUint32
PutUint32(order, v) ==
    LET be == <<v[1] \div 256, v[1] % 256, v[2] \div 256, v[2] % 256>>
    IN  IF order = "BigEndian" THEN be
        ELSE <<be[4], be[3], be[2], be[1]>>

\* the URL-safe base64 alphabet: A-Z a-z 0-9 - _
B64Char(i) ==
    IF i < 26 THEN 65 + i
    ELSE IF i < 52 THEN 97 + (i - 26)
    ELSE IF i < 62 THEN 48 + (i - 52)
    ELSE IF i = 62 THEN 45
    ELSE 95

RECURSIVE EncodeToString(_)
\* base64.RawURLEncoding.EncodeToString: 3 bytes to 4 characters, no padding
EncodeToString(bs) ==
    IF Len(bs) = 0 THEN <<>>
    ELSE IF Len(bs) = 1 THEN
        <<B64Char(bs[1] \div 4), B64Char((bs[1] % 4) * 16)>>
    ELSE IF Len(bs) = 2 THEN
        <<B64Char(bs[1] \div 4),
          B64Char((bs[1] % 4) * 16 + bs[2] \div 16),
          B64Char((bs[2] % 16) * 4)>>
    ELSE
        <<B64Char(bs[1] \div 4),
          B64Char((bs[1] % 4) * 16 + bs[2] \div 16),
          B64Char((bs[2] % 16) * 4 + bs[3] \div 64),
          B64Char(bs[3] % 64)>>
        \o EncodeToString(SubSeq(bs, 4, Len(bs)))

\* binary.NativeEndian is the byte order of the platform
genHash(in, platform) ==
    EncodeToString(PutUint32(platform, Sum32(in)))

(***************************************************************************)
(* Process: one step per zz.Next() call.                                   *)
(***************************************************************************)
EmptyMap == [k \in {} |-> <<>>]

\* scopedClasses[k] = v
Put(m, k, v) == [x \in DOMAIN m \cup {k} |-> IF x = k THEN v ELSE m[x]]

NoRet == [returned |-> FALSE, out |-> <<>>, classes |-> EmptyMap, err |-> "nil"]

\* the locals of Process before the main loop
ProcessStart(in, platform) ==
    [pc |-> "main", pos |-> 1, hash |-> genHash(Text(in), platform),
     out |-> <<>>, tmp |-> <<>>, scopedClasses |-> EmptyMap,
     braceCount |-> 0, ret |-> NoRet]

\* zz.Next(): the next token, or the sticky ErrorToken at the end
LexNext(in, p) ==
    IF p.pos <= Len(in.toks) THEN in.toks[p.pos] ELSE ErrorToken

IsDot(t) == t.type = "Delim" /\ t.data = <<46>>

\* addScopedName without the assignment to scopedClasses
addScopedNameUnrecorded(p, rawName) ==
    LET scopedName == rawName \o <<95>> \o p.hash
    IN  [p EXCEPT !.out = @ \o scopedName]

\* addScopedName that keys the mapping by the scoped name
addScopedNameSwapped(p, rawName) ==
    LET scopedName == rawName \o <<95>> \o p.hash
    IN  [p EXCEPT !.scopedClasses = Put(@, scopedName, rawName),
                  !.out = @ \o scopedName]

\* the closure addScopedName
addScopedName(p, rawName) ==
    LET scopedName == rawName \o <<95>> \o p.hash
    IN  [p EXCEPT !.scopedClasses = Put(@, rawName, scopedName),
                  !.out = @ \o scopedName]

\* a return statement of Process
Return(p, out, classes, err) ==
    [p EXCEPT !.pc = "done",
              !.ret = [returned |-> TRUE, out |-> out,
                       classes |-> classes, err |-> err]]

\* mainLoop returning what it has on any ErrorToken
MainLoopAnyErrorEnds(in, p) ==
    LET t == LexNext(in, p)
        q == [p EXCEPT !.pos = @ + 1, !.tmp = @ \o t.data]
        flushed == [q EXCEPT !.out = @ \o q.tmp, !.tmp = <<>>]
    IN  IF t.type = "Error" THEN Return(p, p.out, p.scopedClasses, "nil")
        ELSE IF t.type = "Colon" THEN [q EXCEPT !.pc = "colon"]
        ELSE IF t.type = "AtKeyword" THEN [flushed EXCEPT !.pc = "at"]
        ELSE IF IsDot(t) THEN [flushed EXCEPT !.pc = "dot"]
        ELSE flushed

\* the top of mainLoop
MainLoop(in, p) ==
    LET t == LexNext(in, p)
        q == [p EXCEPT !.pos = @ + 1, !.tmp = @ \o t.data]
        flushed == [q EXCEPT !.out = @ \o q.tmp, !.tmp = <<>>]
    IN  IF t.type = "Error" THEN
            IF in.end = "EOF" THEN Return(p, p.out, p.scopedClasses, "nil")
            ELSE Return(p, <<>>, EmptyMap, in.end)
        ELSE IF t.type = "Colon" THEN [q EXCEPT !.pc = "colon"]
        ELSE IF t.type = "AtKeyword" THEN [flushed EXCEPT !.pc = "at"]
        ELSE IF IsDot(t) THEN [flushed EXCEPT !.pc = "dot"]
        ELSE flushed

\* the token after a Colon
AfterColon(in, p) ==
    LET t == LexNext(in, p)
    IN  IF t.type = "Error" THEN [p EXCEPT !.pc = "main"]
        ELSE IF t.type # "Ident" \/ t.data # TGlobal.data THEN
            [p EXCEPT !.pos = @ + 1, !.out = @ \o p.tmp \o t.data,
                      !.tmp = <<>>, !.pc = "main"]
        ELSE [p EXCEPT !.pos = @ + 1, !.braceCount = 0, !.pc = "global"]

\* the :global loop copying every brace, the wrapping pair included
GlobalLoopKeepsWrapper(in, p) ==
    LET t == LexNext(in, p)
        q == [p EXCEPT !.pos = @ + 1, !.out = @ \o t.data]
    IN  IF t.type = "Error" THEN [p EXCEPT !.pc = "main"]
        ELSE IF t.type = "LeftBrace" THEN [q EXCEPT !.braceCount = @ + 1]
        ELSE IF t.type = "RightBrace" THEN
            IF p.braceCount - 1 <= 0
            THEN [q EXCEPT !.braceCount = @ - 1, !.tmp = <<>>, !.pc = "main"]
            ELSE [q EXCEPT !.braceCount = @ - 1]
        ELSE q

\* GlobalLoop that writes the lookahead buffer when the stream ends in the block
GlobalLoopErrorFlushes(in, p) ==
    LET t == LexNext(in, p)
        q == [p EXCEPT !.pos = @ + 1]
    IN  IF t.type = "Error" THEN [p EXCEPT !.out = @ \o p.tmp, !.pc = "main"]
        ELSE IF t.type = "LeftBrace" THEN
            [q EXCEPT !.out = IF p.braceCount # 0 THEN @ \o t.data ELSE @,
                      !.braceCount = @ + 1]
        ELSE IF t.type = "RightBrace" THEN
            LET r == [q EXCEPT
                        !.out = IF p.braceCount # 1 THEN @ \o t.data ELSE @,
                        !.braceCount = @ - 1]
            IN  IF r.braceCount <= 0
                THEN [r EXCEPT !.tmp = <<>>, !.pc = "main"]
                ELSE r
        ELSE [q EXCEPT !.out = @ \o t.data]

\* GlobalLoop that leaves the lookahead buffer as it is when the block ends
GlobalLoopKeepsTmp(in, p) ==
    LET t == LexNext(in, p)
        q == [p EXCEPT !.pos = @ + 1]
    IN  IF t.type = "Error" THEN [p EXCEPT !.pc = "main"]
        ELSE IF t.type = "LeftBrace" THEN
            [q EXCEPT !.out = IF p.braceCount # 0 THEN @ \o t.data ELSE @,
                      !.braceCount = @ + 1]
        ELSE IF t.type = "RightBrace" THEN
            LET r == [q EXCEPT
                        !.out = IF p.braceCount # 1 THEN @ \o t.data ELSE @,
                        !.braceCount = @ - 1]
            IN  IF r.braceCount <= 0 THEN [r EXCEPT !.pc = "main"] ELSE r
        ELSE [q EXCEPT !.out = @ \o t.data]

\* GlobalLoop that stays in its loop when the stream has ended
GlobalLoopErrorContinues(in, p) ==
    LET t == LexNext(in, p)
        q == [p EXCEPT !.pos = @ + 1]
    IN  IF t.type = "Error" THEN p
        ELSE IF t.type = "LeftBrace" THEN
            [q EXCEPT !.out = IF p.braceCount # 0 THEN @ \o t.data ELSE @,
                      !.braceCount = @ + 1]
        ELSE IF t.type = "RightBrace" THEN
            LET r == [q EXCEPT
                        !.out = IF p.braceCount # 1 THEN @ \o t.data ELSE @,
                        !.braceCount = @ - 1]
            IN  IF r.braceCount <= 0
                THEN [r EXCEPT !.tmp = <<>>, !.pc = "main"]
                ELSE r
        ELSE [q EXCEPT !.out = @ \o t.data]

\* one pass of the loop that copies a :global block
GlobalLoop(in, p) ==
    LET t == LexNext(in, p)
        q == [p EXCEPT !.pos = @ + 1]
    IN  IF t.type = "Error" THEN [p EXCEPT !.pc = "main"]
        ELSE IF t.type = "LeftBrace" THEN
            [q EXCEPT !.out = IF p.braceCount # 0 THEN @ \o t.data ELSE @,
                      !.braceCount = @ + 1]
        ELSE IF t.type = "RightBrace" THEN
            LET r == [q EXCEPT
                        !.out = IF p.braceCount # 1 THEN @ \o t.data ELSE @,
                        !.braceCount = @ - 1]
            IN  IF r.braceCount <= 0
                THEN [r EXCEPT !.tmp = <<>>, !.pc = "main"]
                ELSE r
        ELSE [q EXCEPT !.out = @ \o t.data]

\* the token after an at-keyword
AfterAt(in, p) ==
    LET t == LexNext(in, p)
        q == [p EXCEPT !.pos = @ + 1, !.out = @ \o t.data]
    IN  IF t.type = "Error" THEN [p EXCEPT !.pc = "main"]
        ELSE IF t.type # "Ident" \/ t.data # TMedia.data THEN
            [q EXCEPT !.pc = "main"]
        ELSE [q EXCEPT !.pc = "media"]

\* one pass of the loop over an @media rule; braceCount is declared in the
\* loop body, so every pass starts from 0
MediaLoop(in, p) ==
    LET t == LexNext(in, p)
        q == [p EXCEPT !.pos = @ + 1, !.out = @ \o t.data]
        braceCount == 0
    IN  IF t.type = "Error" THEN [p EXCEPT !.pc = "main"]
        ELSE IF IsDot(t) THEN [q EXCEPT !.pc = "mediaDot"]
        ELSE IF t.type = "LeftBrace" THEN q
        ELSE IF t.type = "RightBrace" THEN
            IF braceCount - 1 <= 0
            THEN [q EXCEPT !.tmp = <<>>, !.pc = "main"]
            ELSE q
        ELSE q

\* the token after a "." inside the @media loop
MediaDot(in, p) ==
    LET t == LexNext(in, p)
        q == [p EXCEPT !.pos = @ + 1]
    IN  IF t.type = "Error" THEN [p EXCEPT !.pc = "main"]
        ELSE IF t.type # "Ident" THEN
            [q EXCEPT !.out = @ \o t.data, !.pc = "media"]
        ELSE [addScopedName(q, t.data) EXCEPT !.pc = "media"]

\* AfterDot that copies the class name before writing its scoped name
AfterDotKeepsRawName(in, p) ==
    LET t == LexNext(in, p)
        q == [p EXCEPT !.pos = @ + 1]
    IN  IF t.type = "Error" THEN [p EXCEPT !.pc = "main"]
        ELSE IF t.type # "Ident" THEN
            [q EXCEPT !.out = @ \o t.data, !.pc = "main"]
        ELSE [addScopedName([q EXCEPT !.out = @ \o t.data], t.data)
                  EXCEPT !.tmp = <<>>, !.pc = "main"]

\* the token after a "." in the main loop
AfterDot(in, p) ==
    LET t == LexNext(in, p)
        q == [p EXCEPT !.pos = @ + 1]
    IN  IF t.type = "Error" THEN [p EXCEPT !.pc = "main"]
        ELSE IF t.type # "Ident" THEN
            [q EXCEPT !.out = @ \o t.data, !.pc = "main"]
        ELSE [addScopedName(q, t.data) EXCEPT !.tmp = <<>>, !.pc = "main"]

\* the step Process takes from p
ProcessStep(in, p) ==
    CASE p.pc = "main" -> MainLoop(in, p)
      [] p.pc = "colon" -> AfterColon(in, p)
      [] p.pc = "global" -> GlobalLoop(in, p)
      [] p.pc = "at" -> AfterAt(in, p)
      [] p.pc = "media" -> MediaLoop(in, p)
      [] p.pc = "mediaDot" -> MediaDot(in, p)
      [] p.pc = "dot" -> AfterDot(in, p)

RECURSIVE RunProcess(_, _)
RunProcess(in, p) ==
    IF p.pc = "done" THEN p.ret ELSE RunProcess(in, ProcessStep(in, p))

\* Process(styles): what a whole call returns
Process(in, platform) == RunProcess(in, ProcessStart(in, platform))

(***************************************************************************)
(* The Collector.  A collector c is [rules, styles]; a ruleset text is     *)
(* given as the token stream the lexer makes of it and cached under its    *)
(* bytes.                                                                  *)
(***************************************************************************)
\* Classes always running Process, without the lookup in c.rules
ClassesUncached(c, in, platform) ==
    LET r == Process(in, platform)
    IN  IF r.err # "nil"
        THEN [rules |-> c.rules, styles |-> c.styles,
              mapping |-> EmptyMap, err |-> r.err]
        ELSE [rules |-> Put(c.rules, Text(in), r.classes),
              styles |-> c.styles \o r.out \o <<10>>,
              mapping |-> r.classes, err |-> "nil"]

\* Classes appending the styles without the newline after them
ClassesNoNewline(c, in, platform) ==
    IF Text(in) \in DOMAIN c.rules
    THEN [rules |-> c.rules, styles |-> c.styles,
          mapping |-> c.rules[Text(in)], err |-> "nil"]
    ELSE LET r == Process(in, platform)
         IN  IF r.err # "nil"
             THEN [rules |-> c.rules, styles |-> c.styles,
                   mapping |-> EmptyMap, err |-> r.err]
             ELSE [rules |-> Put(c.rules, Text(in), r.classes),
                   styles |-> c.styles \o r.out,
                   mapping |-> r.classes, err |-> "nil"]

\* Collector.Classes that stores and appends whatever Process returned
ClassesKeepsFailure(c, in, platform) ==
    IF Text(in) \in DOMAIN c.rules
    THEN [rules |-> c.rules, styles |-> c.styles,
          mapping |-> c.rules[Text(in)], err |-> "nil"]
    ELSE LET r == Process(in, platform)
         IN  [rules |-> Put(c.rules, Text(in), r.classes),
              styles |-> c.styles \o r.out \o <<10>>,
              mapping |-> r.classes, err |-> r.err]

\* Collector.Classes: the collector after the call, and what it returns
ClassesOf(c, in, platform) ==
    IF Text(in) \in DOMAIN c.rules
    THEN [rules |-> c.rules, styles |-> c.styles,
          mapping |-> c.rules[Text(in)], err |-> "nil"]
    ELSE LET r == Process(in, platform)
         IN  IF r.err # "nil"
             THEN [rules |-> c.rules, styles |-> c.styles,
                   mapping |-> EmptyMap, err |-> r.err]
             ELSE [rules |-> Put(c.rules, Text(in), r.classes),
                   styles |-> c.styles \o r.out \o <<10>>,
                   mapping |-> r.classes, err |-> "nil"]

\* h.Class(value): the class attribute node
Class(value) ==
    [kind |-> "node", attr |-> "class", value |-> value, err |-> "nil"]

\* panic(err)
PanicErr(err) ==
    [kind |-> "panic", attr |-> "", value |-> <<>>, err |-> err]

\* panic(fmt.Sprintf("no class found %q", name)): the text, then name quoted
NoClassFound(name) ==
    <<110, 111, 32, 99, 108, 97, 115, 115, 32, 102, 111, 117, 110, 100, 32>>
    \o <<34>> \o name \o <<34>>

PanicMsg(msg) ==
    [kind |-> "panic", attr |-> "", value |-> msg, err |-> "nil"]

RECURSIVE JoinSkipping(_, _, _, _)
\* the loop of C leaving out the names that are not found
JoinSkipping(mapping, className, i, sb) ==
    IF i > Len(className) THEN Class(sb)
    ELSE LET sep == IF i # 1 THEN sb \o <<32>> ELSE sb
         IN  IF className[i] \in DOMAIN mapping
             THEN JoinSkipping(mapping, className, i + 1,
                               sep \o mapping[className[i]])
             ELSE JoinSkipping(mapping, className, i + 1, sep)

\* C without the panics: a name that is not found is left out
LookupSkipping(mapping, className) ==
    IF Len(className) = 1 THEN
        IF className[1] \in DOMAIN mapping
        THEN Class(mapping[className[1]])
        ELSE Class(<<>>)
    ELSE JoinSkipping(mapping, className, 1, <<>>)

RECURSIVE JoinSpaceFirst(_, _, _, _)
\* the loop of C writing the separator before every name, the first included
JoinSpaceFirst(mapping, className, i, sb) ==
    IF i > Len(className) THEN Class(sb)
    ELSE IF className[i] \in DOMAIN mapping
         THEN JoinSpaceFirst(mapping, className, i + 1,
                             sb \o <<32>> \o mapping[className[i]])
         ELSE PanicMsg(NoClassFound(className[i]))

RECURSIVE Join(_, _, _, _)
\* the loop of C over className, from index i with sb built so far
Join(mapping, className, i, sb) ==
    IF i > Len(className) THEN Class(sb)
    ELSE LET sep == IF i # 1 THEN sb \o <<32>> ELSE sb
         IN  IF className[i] \in DOMAIN mapping
             THEN Join(mapping, className, i + 1, sep \o mapping[className[i]])
             ELSE PanicMsg(NoClassFound(className[i]))

\* the body of C once Classes has returned mapping
Lookup(mapping, className) ==
    IF Len(className) = 1 THEN
        IF className[1] \in DOMAIN mapping
        THEN Class(mapping[className[1]])
        ELSE PanicMsg(NoClassFound(className[1]))
    ELSE Join(mapping, className, 1, <<>>)

\* what C does with what Classes returned: panic(err), or the lookups
CResult(r, className) ==
    IF r.err # "nil" THEN PanicErr(r.err) ELSE Lookup(r.mapping, className)

\* Collector.C that keeps what Classes did only when it returns a node
COfPanicUnwinds(c, in, className, platform) ==
    LET r == ClassesOf(c, in, platform)
        result == CResult(r, className)
    IN  IF result.kind = "panic"
        THEN [rules |-> c.rules, styles |-> c.styles, result |-> result]
        ELSE [rules |-> r.rules, styles |-> r.styles, result |-> result]

\* Collector.C: the collector after the call, and the node or the panic
COf(c, in, className, platform) ==
    LET r == ClassesOf(c, in, platform)
    IN  [rules |-> r.rules, styles |-> r.styles,
         result |-> CResult(r, className)]

\* Collector.R
ROf(c, in, platform) == COf(c, in, <<TRoot.data>>, platform)

StyleOpen == <<60, 115, 116, 121, 108, 101, 62>>
StyleClose == <<60, 47, 115, 116, 121, 108, 101, 62>>

\* Collector.Render: c.styles.WriteTo(w) drains the buffer it writes
RenderOf(c) ==
    [rules |-> c.rules, styles |-> <<>>,
     w |-> StyleOpen \o c.styles \o StyleClose]

(***************************************************************************)
(* Process run step by step on every bounded token stream.                 *)
(***************************************************************************)
NoCall == [op |-> "none", rules |-> [toks |-> <<>>, end |-> "EOF"], className |-> <<>>]
NoResult == [kind |-> "none"]

CollectorIdle ==
    /\ rules = EmptyMap
    /\ styles = <<>>
    /\ call = NoCall
    /\ ret = NoResult
    /\ w = <<>>
    /\ hist = <<>>

InitProcess ==
    /\ input \in [toks : Streams, end : Ends]
    /\ endian \in Platforms
    /\ proc = ProcessStart(input, endian)
    /\ CollectorIdle

ProcessFrame == UNCHANGED <<input, endian, rules, styles, call, ret, w, hist>>

StepMainLoop ==
    /\ proc.pc = "main"
    /\ proc' = MainLoop(input, proc)
    /\ ProcessFrame

StepAfterColon ==
    /\ proc.pc = "colon"
    /\ proc' = AfterColon(input, proc)
    /\ ProcessFrame

StepGlobalLoop ==
    /\ proc.pc = "global"
    /\ proc' = GlobalLoop(input, proc)
    /\ ProcessFrame

StepAfterAt ==
    /\ proc.pc = "at"
    /\ proc' = AfterAt(input, proc)
    /\ ProcessFrame

StepMediaLoop ==
    /\ proc.pc = "media"
    /\ proc' = MediaLoop(input, proc)
    /\ ProcessFrame

StepMediaDot ==
    /\ proc.pc = "mediaDot"
    /\ proc' = MediaDot(input, proc)
    /\ ProcessFrame

StepAfterDot ==
    /\ proc.pc = "dot"
    /\ proc' = AfterDot(input, proc)
    /\ ProcessFrame

NextProcess ==
    \/ StepMainLoop
    \/ StepAfterColon
    \/ StepGlobalLoop
    \/ StepAfterAt
    \/ StepMediaLoop
    \/ StepMediaDot
    \/ StepAfterDot

SpecProcess == InitProcess /\ [][NextProcess]_vars

\* a call of Process keeps running: the code between two calls of zz.Next()
\* has no wait and no blocking operation, so a step that can be taken is taken
SpecProcessFair == InitProcess /\ [][NextProcess]_vars /\ WF_vars(NextProcess)

(***************************************************************************)
(* One Collector and the calls made on it.                                 *)
(***************************************************************************)
\* ".a{}"
RulesA == [toks |-> <<TDot, TA, TLB, TRB>>, end |-> "EOF"]
\* ".root>.a"
RulesRoot == [toks |-> <<TDot, TRoot, TGt, TDot, TA>>, end |-> "EOF"]
\* ".a" and bytes the lexer's reader fails on
RulesUnread == [toks |-> <<TDot, TA>>, end |-> "lexerr"]

\* the ruleset texts given to the Collector
RuleTexts == {RulesA, RulesRoot, RulesUnread}

\* the class names asked for: "a", "root", "b"
Names == {TA.data, TRoot.data, <<98>>}

ClassNames == UNION {[1..n -> Names] : n \in 0..MaxNames}

NoRules == [toks |-> <<>>, end |-> "EOF"]

collector == [rules |-> rules, styles |-> styles]

InitCollector ==
    /\ input = NoRules
    /\ endian = "LittleEndian"
    /\ proc = ProcessStart(input, endian)
    /\ CollectorIdle

CollectorFrame == UNCHANGED <<input, endian, proc>>

Classes ==
    /\ Len(hist) < MaxCalls
    /\ \E in \in RuleTexts :
        LET r == ClassesOf(collector, in, endian)
        IN  /\ rules' = r.rules
            /\ styles' = r.styles
            /\ call' = [op |-> "Classes", rules |-> in, className |-> <<>>]
            /\ ret' = [kind |-> "mapping", mapping |-> r.mapping, err |-> r.err]
            /\ hist' = Append(hist, [op |-> "rules", rules |-> in])
    /\ UNCHANGED w
    /\ CollectorFrame

\* x is a ruleset text with what Classes does and returns for it
C ==
    /\ Len(hist) < MaxCalls
    /\ \E x \in {<<in, ClassesOf(collector, in, endian)>> : in \in RuleTexts} :
        \E className \in ClassNames :
            /\ rules' = x[2].rules
            /\ styles' = x[2].styles
            /\ call' = [op |-> "C", rules |-> x[1], className |-> className]
            /\ ret' = CResult(x[2], className)
            /\ hist' = Append(hist, [op |-> "rules", rules |-> x[1]])
    /\ UNCHANGED w
    /\ CollectorFrame

R ==
    /\ Len(hist) < MaxCalls
    /\ \E in \in RuleTexts :
        LET r == ROf(collector, in, endian)
        IN  /\ rules' = r.rules
            /\ styles' = r.styles
            /\ call' = [op |-> "R", rules |-> in, className |-> <<>>]
            /\ ret' = r.result
            /\ hist' = Append(hist, [op |-> "rules", rules |-> in])
    /\ UNCHANGED w
    /\ CollectorFrame

Render ==
    /\ Len(hist) < MaxCalls
    /\ LET r == RenderOf(collector)
       IN  /\ rules' = r.rules
           /\ styles' = r.styles
           /\ w' = r.w
    /\ call' = [op |-> "Render", rules |-> NoRules, className |-> <<>>]
    /\ ret' = [kind |-> "error", err |-> "nil"]
    /\ hist' = Append(hist, [op |-> "Render", rules |-> NoRules])
    /\ CollectorFrame

NextCollector ==
    \/ Classes
    \/ C
    \/ R
    \/ Render

SpecCollector == InitCollector /\ [][NextCollector]_vars

(***************************************************************************)
(* Reading a token stream: what the claims about Process speak of.         *)
(***************************************************************************)
Done == proc.pc = "done"

toks == input.toks

IsIdent(t) == t.type = "Ident"

\* a token that starts nothing in the main loop
IsPlain(t) == t.type \notin {"Colon", "AtKeyword"} /\ ~IsDot(t)

IsBrace(t) == t.type \in {"LeftBrace", "RightBrace"}

\* position i holds a "." and position i + 1 an identifier
DotIdentAt(i) ==
    i + 1 <= Len(toks) /\ IsDot(toks[i]) /\ IsIdent(toks[i + 1])

\* position j holds a Colon and position j + 1 the identifier global
GlobalAt(j) ==
    j + 1 <= Len(toks) /\ toks[j] = TColon /\ toks[j + 1] = TGlobal

RECURSIVE ClosingBrace(_, _)
\* from position i at nesting depth n: the position of the RightBrace that
\* brings the depth back to 0 (or below), Len(toks) + 1 when there is none
ClosingBrace(i, n) ==
    IF i > Len(toks) THEN Len(toks) + 1
    ELSE IF toks[i].type = "LeftBrace" THEN ClosingBrace(i + 1, n + 1)
    ELSE IF toks[i].type = "RightBrace" THEN
        IF n - 1 <= 0 THEN i ELSE ClosingBrace(i + 1, n - 1)
    ELSE ClosingBrace(i + 1, n)

\* position i lies in a :global block: after some Colon, global and not
\* after the RightBrace that closes the block
InGlobal(i) ==
    \E j \in 1..(i - 2) : GlobalAt(j) /\ i <= ClosingBrace(j + 2, 0)

\* positions k..(m - 1) hold no brace and position m a LeftBrace
OpensAt(k, m) ==
    /\ k <= m /\ m <= Len(toks)
    /\ toks[m].type = "LeftBrace"
    /\ \A x \in k..(m - 1) : ~IsBrace(toks[x])

\* the tokens at positions a..b
Part(a, b) == SubSeq(toks, a, b)

(***************************************************************************)
(* C1  Scoping completeness.                                               *)
(***************************************************************************)
\* C1 as stated: when Process has returned at end-of-stream, every Ident that
\* immediately follows a "." outside a :global block is a key of the returned
\* mapping, whatever token precedes the ".".
C1_EveryDotIdentIsKey ==
    (Done /\ input.end = "EOF") =>
        \A i \in 1..Len(toks) :
            (DotIdentAt(i) /\ ~InGlobal(i)) =>
                toks[i + 1].data \in DOMAIN proc.ret.classes

\* the "." at i is not the token read right after a Colon, an at-keyword
\* or another "."
NotLookahead(i) ==
    i = 1 \/ (toks[i - 1].type \notin {"Colon", "AtKeyword"} /\ ~IsDot(toks[i - 1]))

\* C1 amended: when Process has returned at end-of-stream, every Ident that
\* immediately follows a "." outside a :global block is a key of the returned
\* mapping, with its scoped name as value, provided the "." is the first token
\* or follows a token other than a Colon, an at-keyword and a ".".
C1_DotIdentIsKey ==
    (Done /\ input.end = "EOF") =>
        \A i \in 1..Len(toks) :
            (DotIdentAt(i) /\ ~InGlobal(i) /\ NotLookahead(i)) =>
                /\ toks[i + 1].data \in DOMAIN proc.ret.classes
                /\ proc.ret.classes[toks[i + 1].data]
                       = toks[i + 1].data \o <<95>> \o proc.hash

\* a class selector scoped after a closed :global block, another after an
\* @media header
C1_Witness ==
    /\ Done /\ input.end = "EOF"
    /\ \E i \in 2..Len(toks) :
           /\ DotIdentAt(i) /\ ~InGlobal(i) /\ NotLookahead(i)
           /\ \/ toks[i - 1] = TRB /\ \E j \in 1..i : GlobalAt(j)
              \/ toks[i - 1] = TMedia /\ i > 2 /\ toks[i - 2] = TAt
    /\ TA.data \in DOMAIN proc.ret.classes

(***************************************************************************)
(* C2  Global opt-out.                                                     *)
(***************************************************************************)
\* Process reads the Colon at j in the main loop; global follows; the block
\* opens at m and its matching RightBrace is at c
GlobalBlock(j, m, c) ==
    /\ GlobalAt(j)
    /\ \A x \in 1..(j - 1) : IsPlain(toks[x])
    /\ OpensAt(j + 2, m)
    /\ c = ClosingBrace(m + 1, 1)
    /\ c <= Len(toks)

\* C2: once Process has consumed a :global block (Colon, global, tokens up to
\* the first LeftBrace, the block, its matching RightBrace), the output holds
\* the tokens before the Colon, the tokens between global and the LeftBrace
\* and the tokens of the block, verbatim and in order; the Colon, global, the
\* first LeftBrace and the matching RightBrace are not in it, the lookahead
\* buffer is empty, and the mapping has no key.
C2_GlobalOptOut ==
    \A j \in 1..Len(toks) : \A m \in (j + 2)..Len(toks) :
        LET c == ClosingBrace(m + 1, 1)
        IN  (GlobalBlock(j, m, c) /\ proc.pos = c + 1) =>
                /\ proc.out = Concat(Part(1, j - 1)) \o Concat(Part(j + 2, m - 1))
                                  \o Concat(Part(m + 1, c - 1))
                /\ proc.tmp = <<>>
                /\ proc.scopedClasses = EmptyMap
                /\ (Done /\ input.end = "EOF") =>
                       /\ proc.ret.out = proc.out
                       /\ proc.ret.classes = EmptyMap
                       /\ proc.ret.err = "nil"

\* a :global block holding a class selector and a nested pair of braces
C2_Witness ==
    /\ Done /\ input.end = "EOF"
    /\ \E m \in 3..Len(toks) :
           /\ GlobalBlock(1, m, Len(toks))
           /\ \E i \in (m + 1)..Len(toks) : DotIdentAt(i)
           /\ \E i \in (m + 1)..(Len(toks) - 1) : toks[i] = TRB
    /\ proc.ret.out # <<>>

(***************************************************************************)
(* C3  Media traversal.                                                    *)
(***************************************************************************)
RECURSIVE Rewritten(_, _)
\* the bytes of ts with every "." + Ident rewritten to "." + scoped name, read
\* as at top level: a "." takes the token after it with it
Rewritten(ts, hash) ==
    IF ts = <<>> THEN <<>>
    ELSE IF IsDot(ts[1]) /\ Len(ts) >= 2 THEN
        ts[1].data
        \o (IF IsIdent(ts[2]) THEN ts[2].data \o <<95>> \o hash ELSE ts[2].data)
        \o Rewritten(SubSeq(ts, 3, Len(ts)), hash)
    ELSE ts[1].data \o Rewritten(Tail(ts), hash)

RECURSIVE Scoped(_)
\* the class names Rewritten rewrites
Scoped(ts) ==
    IF ts = <<>> THEN {}
    ELSE IF IsDot(ts[1]) /\ Len(ts) >= 2 THEN
        (IF IsIdent(ts[2]) THEN {ts[2].data} ELSE {})
        \cup Scoped(SubSeq(ts, 3, Len(ts)))
    ELSE Scoped(Tail(ts))

\* the whole stream is one @media rule: at-keyword, media, a header without
\* braces, the LeftBrace at m, a body, the matching RightBrace at the end
MediaRule(m) ==
    /\ Len(toks) >= 4
    /\ toks[1] = TAt /\ toks[2] = TMedia
    /\ OpensAt(3, m)
    /\ ClosingBrace(m + 1, 1) = Len(toks)

\* C3: when Process has returned at end-of-stream from a stream that is one
\* @media rule, the output is the stream with every "." + Ident rewritten to
\* "." + scoped name and every other token verbatim and in order, and the
\* mapping holds exactly the rewritten names, each with its scoped name.
C3_MediaTraversal ==
    (Done /\ input.end = "EOF") =>
        \A m \in 3..Len(toks) :
            MediaRule(m) =>
                /\ proc.ret.out = Rewritten(toks, proc.hash)
                /\ DOMAIN proc.ret.classes = Scoped(toks)

(***************************************************************************)
(* C4  Verbatim pass-through.                                              *)
(***************************************************************************)
\* C4: when Process has returned at end-of-stream from a stream with no "."
\* immediately followed by an Ident and no Colon immediately followed by
\* global, the output is the bytes of all tokens in order, the mapping is
\* empty and the error is nil.
C4_VerbatimPassThrough ==
    ( /\ Done /\ input.end = "EOF"
      /\ \A i \in 1..Len(toks) : ~DotIdentAt(i) /\ ~GlobalAt(i) ) =>
        /\ proc.ret.out = Concat(toks)
        /\ proc.ret.classes = EmptyMap
        /\ proc.ret.err = "nil"

IsPrefix(a, b) == Len(a) <= Len(b) /\ SubSeq(b, 1, Len(a)) = a

\* the ruleset texts given to Classes, C and R in the first n calls
RulesGiven(n) ==
    {hist[i].rules : i \in {x \in 1..n : hist[x].op = "rules"}}

\* the i-th call was the first to give its ruleset text
FirstUse(i) ==
    /\ hist[i].op = "rules"
    /\ \A x \in 1..(i - 1) : hist[x] # hist[i]

RECURSIVE Segments(_, _)
\* for the calls i..n: the output of Process and a newline for every ruleset
\* text given for the first time and processed without error
Segments(i, n) ==
    IF i > n THEN <<>>
    ELSE LET r == Process(hist[i].rules, endian)
         IN  (IF FirstUse(i) /\ r.err = "nil" THEN r.out \o <<10>> ELSE <<>>)
             \o Segments(i + 1, n)

Renders == {i \in 1..Len(hist) : hist[i].op = "Render"}

(***************************************************************************)
(* C6  The accumulated buffer under Classes, C, R and Render.              *)
(***************************************************************************)
\* C6: every call leaves the buffer with its former content as a prefix, and
\* Render changes neither the cache nor the buffer.
C6_BufferNeverShrinks ==
    [][ /\ IsPrefix(styles, styles')
        /\ call'.op = "Render" => (styles' = styles /\ rules' = rules) ]_vars

(***************************************************************************)
(* C7  Cache idempotence.                                                  *)
(***************************************************************************)
\* C7: a Classes call with a ruleset text that an earlier successful call has
\* cached returns the cached mapping and a nil error and changes neither the
\* cache nor the buffer; the mapping a successful first call returns is the
\* one it caches, and no call changes or drops an entry of the cache.
C7_CacheIdempotent ==
    [][ /\ \A k \in DOMAIN rules : k \in DOMAIN rules' /\ rules'[k] = rules[k]
        /\ call'.op = "Classes" =>
            LET k == Text(call'.rules)
            IN  IF k \in DOMAIN rules
                THEN /\ ret'.mapping = rules[k]
                     /\ ret'.err = "nil"
                     /\ rules' = rules
                     /\ styles' = styles
                ELSE ret'.err = "nil" =>
                        (k \in DOMAIN rules' /\ rules'[k] = ret'.mapping) ]_vars

\* a ruleset text given to Classes a second time, another text in between
C7_Witness ==
    /\ Len(hist) >= 3
    /\ call.op = "Classes"
    /\ hist[Len(hist)].rules = call.rules
    /\ hist[Len(hist) - 2].rules = call.rules
    /\ hist[Len(hist) - 1].op = "rules"
    /\ hist[Len(hist) - 1].rules # call.rules
    /\ Text(hist[Len(hist) - 1].rules) \in DOMAIN rules
    /\ ret.err = "nil"
    /\ ret.mapping # EmptyMap
    /\ ret.mapping = rules[Text(call.rules)]

(***************************************************************************)
(* C8  Missing-class failure.                                              *)
(***************************************************************************)
\* the class names a C or R call asks for
Requested == IF call.op = "R" THEN <<TRoot.data>> ELSE call.className

\* the indexes of the requested names the mapping m does not hold
Absent(m) == {i \in 1..Len(Requested) : Requested[i] \notin DOMAIN m}

Least(S) == CHOOSE i \in S : \A x \in S : i <= x

\* C8: when a C or R call asks for at least one name and some requested name
\* is not a key of the mapping Process returns for the ruleset, the call
\* panics with "no class found" and the first such name in request order.
C8_MissingClassPanics ==
    (call.op \in {"C", "R"} /\ Len(Requested) >= 1) =>
        LET r == Process(call.rules, endian)
        IN  (r.err = "nil" /\ Absent(r.classes) # {}) =>
                /\ ret.kind = "panic"
                /\ ret.value = NoClassFound(Requested[Least(Absent(r.classes))])

\* C asked for a name the mapping holds and then for one it does not
C8_Witness ==
    /\ call.op = "C"
    /\ Len(call.className) = 2
    /\ Absent(Process(call.rules, endian).classes) = {2}
    /\ Process(call.rules, endian).err = "nil"
    /\ ret.kind = "panic"

(***************************************************************************)
(* C9  Aggregated output.                                                  *)
(***************************************************************************)
\* C9: the first Render on a Collector writes <style>, then for every
\* distinct ruleset text, in the order of its first successful call, the
\* output of Process for it and a newline, then </style>.
C9_FirstRender ==
    (call.op = "Render" /\ Cardinality(Renders) = 1) =>
        w = StyleOpen \o Segments(1, Len(hist)) \o StyleClose

\* the first Render after two different rulesets, one of them given twice
C9_Witness ==
    /\ call.op = "Render" /\ Cardinality(Renders) = 1
    /\ Cardinality(RulesGiven(Len(hist))) = 2
    /\ Len(hist) = 4
    /\ Cardinality(DOMAIN rules) = 2
    /\ Len(w) > Len(StyleOpen) + Len(StyleClose)

(***************************************************************************)
(* C10  The fingerprint on platforms of either byte order.                 *)
(***************************************************************************)
\* C10: the fingerprint Process uses on this platform is the fingerprint
\* genHash returns for the same text on a platform of either byte order.
C10_HashPlatformStable ==
    \A e \in Platforms : proc.hash = genHash(Text(input), e)

(***************************************************************************)
(* C11  Truncated global block.                                            *)
(***************************************************************************)
\* Process reads the Colon at j in the main loop, global follows, and the
\* stream ends before the RightBrace that would end the block
TruncatedGlobal(j) ==
    /\ GlobalAt(j)
    /\ \A x \in 1..(j - 1) : IsPlain(toks[x])
    /\ ClosingBrace(j + 2, 0) > Len(toks)

\* the tokens at positions a..Len(toks) without the first LeftBrace among them
AfterGlobal(a) ==
    IF \E m \in a..Len(toks) : OpensAt(a, m)
    THEN LET m == CHOOSE m \in a..Len(toks) : OpensAt(a, m)
         IN  Part(a, m - 1) \o Part(m + 1, Len(toks))
    ELSE Part(a, Len(toks))

\* C11: when the stream reaches end-of-stream inside a :global block that is
\* not closed, Process returns no error, the output is the tokens before the
\* Colon followed by every token after global except the first LeftBrace,
\* verbatim and in order, and the mapping has no key.
C11_TruncatedGlobal ==
    \A j \in 1..Len(toks) :
        (TruncatedGlobal(j) /\ Done /\ input.end = "EOF") =>
            /\ proc.ret.err = "nil"
            /\ proc.ret.out = Concat(Part(1, j - 1)) \o Concat(AfterGlobal(j + 2))
            /\ proc.ret.classes = EmptyMap

\* a truncated block that was opened and holds a class selector
C11_Witness ==
    /\ Done /\ input.end = "EOF"
    /\ \E j \in 1..Len(toks) :
           /\ TruncatedGlobal(j)
           /\ \E m \in (j + 2)..Len(toks) :
                  OpensAt(j + 2, m) /\ \E i \in (m + 1)..Len(toks) : DotIdentAt(i)
    /\ proc.ret.out # <<>>

(***************************************************************************)
(* C12  Attribute composition.                                             *)
(***************************************************************************)
RECURSIVE Spaced(_, _)
\* the scoped names of the list names under mapping m, in the order of the
\* list, a single space between neighbours
Spaced(m, names) ==
    IF names = <<>> THEN <<>>
    ELSE IF Len(names) = 1 THEN m[names[1]]
    ELSE Spaced(m, SubSeq(names, 1, Len(names) - 1))
             \o <<32>> \o m[names[Len(names)]]

\* C12: when every name a C or R call asks for is a key of the mapping Process
\* returns for the ruleset, the call returns the class attribute whose value
\* is the scoped names in the order asked for, joined by exactly one space
\* (no space for one name), a name asked for twice appearing twice.
C12_AttributeComposition ==
    (call.op \in {"C", "R"}) =>
        LET r == Process(call.rules, endian)
        IN  (r.err = "nil" /\ Absent(r.classes) = {}) =>
                ret = Class(Spaced(r.classes, Requested))

\* C asked for two different names the mapping holds
C12_Witness ==
    /\ call.op = "C"
    /\ Len(call.className) = 2
    /\ call.className[1] # call.className[2]
    /\ ret.kind = "node"
    /\ Len(ret.value) > Len(call.className[1]) + Len(call.className[2])

(***************************************************************************)
(* C13  Mapping shape.                                                     *)
(***************************************************************************)
\* every entry of mapping m has its key, "_" and the fingerprint of the whole
\* input as value, and its key is the text of an Ident that immediately
\* follows a "." among the tokens read so far
WellShaped(m) ==
    \A k \in DOMAIN m :
        /\ m[k] = k \o <<95>> \o genHash(Text(input), endian)
        /\ \E i \in 1..(proc.pos - 2) : DotIdentAt(i) /\ toks[i + 1].data = k

\* a step of Process changes the mapping only by adding the Ident it reads
\* right after a "." outside the loop that copies a :global block
AddsDotIdent ==
    /\ proc.pc = "global" => proc'.scopedClasses = proc.scopedClasses
    /\ proc'.scopedClasses # proc.scopedClasses =>
           /\ proc.pc \in {"dot", "mediaDot"}
           /\ proc.pos >= 2 /\ DotIdentAt(proc.pos - 1)
           /\ DOMAIN proc'.scopedClasses =
                  DOMAIN proc.scopedClasses \cup {toks[proc.pos].data}
           /\ toks[proc.pos].data \notin DOMAIN proc.scopedClasses
           /\ \A k \in DOMAIN proc.scopedClasses :
                  proc'.scopedClasses[k] = proc.scopedClasses[k]

\* C13: at every point of a run, and in the mapping returned at
\* end-of-stream, every key k has the value k + "_" + fingerprint of the whole
\* input and is the text of an Ident that immediately followed a "."; a key
\* is added only by a step that reads such an Ident outside the loop that
\* copies a :global block, and reading a class name again leaves the mapping
\* as it is, with its single entry for the name.
C13_MappingShape ==
    /\ [](/\ WellShaped(proc.scopedClasses)
          /\ (Done /\ input.end = "EOF") => proc.ret.classes = proc.scopedClasses)
    /\ [][AddsDotIdent]_vars

\* the same class name scoped twice, one entry in the returned mapping
C13_Witness ==
    /\ Done /\ input.end = "EOF"
    /\ \E i \in 1..Len(toks) : \E k \in (i + 2)..Len(toks) :
           /\ DotIdentAt(i) /\ NotLookahead(i) /\ ~InGlobal(i)
           /\ DotIdentAt(k) /\ NotLookahead(k) /\ ~InGlobal(k)
           /\ toks[i + 1] = toks[k + 1]
           /\ DOMAIN proc.ret.classes = {toks[i + 1].data}

(***************************************************************************)
(* C15  Media block nesting.                                               *)
(***************************************************************************)
\* the stream starts with an at-keyword and media, the block opens at m, and
\* Process has read past m without meeting a "." (the token after a "." is
\* copied without being counted)
InMediaBlock(m) ==
    /\ Len(toks) >= 2 /\ toks[1] = TAt /\ toks[2] = TMedia
    /\ OpensAt(3, m)
    /\ proc.pos > m
    /\ \A x \in 3..(proc.pos - 1) : ~IsDot(toks[x])

\* C15: while the RightBrace that matches the first LeftBrace of an @media
\* block is still to be read, Process stays in the @media loop: a RightBrace
\* nested in the block does not take it back to the main loop.
C15_MediaNesting ==
    \A m \in 3..Len(toks) :
        (InMediaBlock(m) /\ proc.pos <= Len(toks)
                         /\ proc.pos <= ClosingBrace(m + 1, 1)) =>
            proc.pc \in {"media", "mediaDot"}

(***************************************************************************)
(* C16  Class rewrite.                                                     *)
(***************************************************************************)
\* Process reads the "." at i in the main loop and a token follows it
DotInNormal(i) ==
    /\ i + 1 <= Len(toks)
    /\ IsDot(toks[i])
    /\ \A x \in 1..(i - 1) : IsPlain(toks[x])

\* C16: once Process has read a "." in the main loop and the token after it,
\* the output is the earlier tokens, the "." and then, for an Ident x, the
\* text x + "_" + fingerprint and nothing else (x is not copied as well),
\* with x mapped to that text; for any other token the output ends with the
\* "." and that token's bytes unchanged and the mapping has no entry.
C16_ClassRewrite ==
    \A i \in 1..Len(toks) :
        (DotInNormal(i) /\ proc.pos = i + 2) =>
            LET x == toks[i + 1].data
                scoped == x \o <<95>> \o genHash(Text(input), endian)
            IN  /\ proc.pc \in {"main", "done"}
                /\ IsIdent(toks[i + 1]) =>
                       /\ proc.out = Concat(Part(1, i - 1)) \o <<46>> \o scoped
                       /\ proc.scopedClasses = Put(EmptyMap, x, scoped)
                /\ ~IsIdent(toks[i + 1]) =>
                       /\ proc.out = Concat(Part(1, i - 1)) \o <<46>> \o x
                       /\ proc.scopedClasses = EmptyMap

\* a "." after some other token, followed by an Ident, both read
C16_Witness ==
    \E i \in 2..Len(toks) :
        /\ DotInNormal(i) /\ IsIdent(toks[i + 1])
        /\ proc.pos = i + 2
        /\ proc.pc = "main"
        /\ DOMAIN proc.scopedClasses = {toks[i + 1].data}

(***************************************************************************)
(* C17  Scoping resumes after a global block.                              *)
(***************************************************************************)
\* the number of ":" bytes in the byte string s
Colons(s) == Cardinality({x \in 1..Len(s) : s[x] = 58})

\* the number of Colon tokens at positions a..b
ColonTokens(a, b) == Cardinality({x \in a..b : toks[x] = TColon})

\* the :global block whose Colon is at j has been read to its matching
\* RightBrace at c: Process is in the main loop (or has returned from it) when
\* nothing more has been read, the lookahead buffer is empty at that point,
\* and the output never holds more ":" than the Colon tokens read after j
BackToNormal(j, c) ==
    /\ proc.pos = c + 1 => (proc.pc \in {"main", "done"} /\ proc.tmp = <<>>)
    /\ proc.pos >= c + 1 => Colons(proc.out) <= ColonTokens(j + 1, proc.pos - 1)

\* the Ident after the "." at i is a key of the returned mapping
ScopedAt(i) ==
    /\ toks[i + 1].data \in DOMAIN proc.ret.classes
    /\ proc.ret.classes[toks[i + 1].data]
           = toks[i + 1].data \o <<95>> \o genHash(Text(input), endian)

\* C17 as stated: after the matching RightBrace of a :global block is read,
\* Process is in the main loop with an empty lookahead buffer, the Colon of
\* the block is never written, and every later "." + Ident outside a :global
\* block is a key of the mapping returned at end-of-stream.
C17_ScopingResumes ==
    \A j \in 1..Len(toks) : \A m \in (j + 2)..Len(toks) :
        LET c == ClosingBrace(m + 1, 1)
        IN  GlobalBlock(j, m, c) =>
                /\ BackToNormal(j, c)
                /\ (Done /\ input.end = "EOF") =>
                       \A i \in (c + 1)..Len(toks) :
                           (DotIdentAt(i) /\ ~InGlobal(i)) => ScopedAt(i)

\* C17 amended: after the matching RightBrace of a :global block is read,
\* Process is in the main loop with an empty lookahead buffer, the Colon of
\* the block is never written, and every later "." + Ident outside a :global
\* block whose "." does not follow a Colon, an at-keyword or another "." is
\* a key of the mapping returned at end-of-stream.
C17_ScopingResumesInNormal ==
    \A j \in 1..Len(toks) : \A m \in (j + 2)..Len(toks) :
        LET c == ClosingBrace(m + 1, 1)
        IN  GlobalBlock(j, m, c) =>
                /\ BackToNormal(j, c)
                /\ (Done /\ input.end = "EOF") =>
                       \A i \in (c + 1)..Len(toks) :
                           (DotIdentAt(i) /\ ~InGlobal(i) /\ NotLookahead(i))
                               => ScopedAt(i)

\* a closed :global block, then a class selector that is scoped, no ":" in
\* the output
C17_Witness ==
    /\ Done /\ input.end = "EOF"
    /\ \E m \in 3..Len(toks) :
           LET c == ClosingBrace(m + 1, 1)
           IN  /\ GlobalBlock(1, m, c)
               /\ \E i \in (c + 1)..Len(toks) :
                      DotIdentAt(i) /\ NotLookahead(i) /\ ScopedAt(i)
    /\ Colons(proc.ret.out) = 0

(***************************************************************************)
(* C18  Read-through with side effect.                                     *)
(***************************************************************************)
\* C18: a Classes, C or R call with a ruleset text that is not in the cache
\* and that Process accepts adds the text with the mapping of Process to the
\* cache and appends the output of Process and a newline to the buffer: C and
\* R do what Classes does, also when they go on to panic over a missing name.
C18_ReadThrough ==
    [][ call'.op \in {"Classes", "C", "R"} =>
            LET k == Text(call'.rules)
                r == Process(call'.rules, endian)
            IN  (k \notin DOMAIN rules /\ r.err = "nil") =>
                    /\ rules' = Put(rules, k, r.classes)
                    /\ styles' = styles \o r.out \o <<10>> ]_vars

\* R was the first call to give its ruleset text and found no root in it:
\* the text is cached and its rules are in the buffer
C18_Witness ==
    /\ call.op = "R"
    /\ ret.kind = "panic" /\ ret.err = "nil"
    /\ Len(hist) >= 2 /\ FirstUse(Len(hist))
    /\ Text(call.rules) \in DOMAIN rules
    /\ Cardinality(DOMAIN rules) = 2
    /\ styles # <<>>

(***************************************************************************)
(* C19  Termination.                                                       *)
(***************************************************************************)
\* a step of Process reads one token: a token of the stream, which it
\* consumes, or the ErrorToken that ends the stream; reading the ErrorToken in
\* the main loop returns, reading it anywhere else goes back to the main loop
ReadsOneToken ==
    \/ proc.pos <= Len(toks) /\ proc'.pos = proc.pos + 1
    \/ /\ proc.pos = Len(toks) + 1 /\ proc'.pos = proc.pos
       /\ IF proc.pc = "main" THEN proc'.pc = "done" ELSE proc'.pc = "main"

\* C19: for every finite token stream followed by a sticky end-of-stream,
\* whatever loops it passes through, Process eventually returns, and every
\* pass of the main loop, of the :global loop and of the @media loop reads at
\* least one token: it consumes a token of the stream or leaves its loop at
\* the end-of-stream ErrorToken.
C19_Terminates ==
    /\ <>Done
    /\ [][ReadsOneToken]_vars

\* Process has returned after an @media block and a :global block
C19_Witness ==
    /\ Done
    /\ Len(toks) >= 5 /\ toks[1] = TAt /\ toks[2] = TMedia
    /\ \E j \in 4..Len(toks) : GlobalAt(j)
    /\ Colons(proc.out) = 0
    /\ proc.ret.returned

(***************************************************************************)
(* C20  Failed processing leaves the Collector untouched.                  *)
(***************************************************************************)
\* C20: a Classes call with a ruleset text for which Process returns an error
\* returns that error and a nil mapping and changes neither the cache nor the
\* buffer; such a text is never in the cache, so every later call with it
\* runs Process again.
C20_FailureLeavesCollector ==
    /\ [](\A in \in RuleTexts :
              Process(in, endian).err # "nil" => Text(in) \notin DOMAIN rules)
    /\ [][ call'.op = "Classes" =>
               LET r == Process(call'.rules, endian)
               IN  r.err # "nil" =>
                       /\ ret'.err = r.err
                       /\ ret'.mapping = EmptyMap
                       /\ rules' = rules
                       /\ styles' = styles ]_vars

\* Classes fails twice in a row on the same text, after a text it accepted
C20_Witness ==
    /\ call.op = "Classes"
    /\ ret.err # "nil" /\ ret.mapping = EmptyMap
    /\ Len(hist) >= 3
    /\ hist[Len(hist) - 1] = hist[Len(hist)]
    /\ Text(hist[Len(hist) - 2].rules) \in DOMAIN rules
    /\ styles # <<>>

====
